---- MODULE Spec2Model ----
(***************************************************************************)
(* Stateful key/value cache and greedy decoding loop of the Mistral7B      *)
(* example (Examples/Mistral7B/export.py and generate.py).                 *)
(*                                                                         *)
(* A cache cell k_cache[layer][pos] stands for the whole                   *)
(* [batch, kv_head, head_dim] block stored at one position of one layer.   *)
(* Positions and layers are 0-based as in the source.                      *)
(***************************************************************************)
EXTENDS Integers, Sequences, FiniteSets, TLC

\* ------------------------------------------------------------------ bounds
max_context_size == 3
num_hidden_layers == 2
MaxPrompt == 4
MaxNewTokens == 2
MaxChunk == 2
MaxDim == 2
VocabSize == 3

\* --------------------------------------------------------- program constants
eos_token_id == 0
NegInf == -1

Vocab == 0..(VocabSize - 1)
PromptVocab == Vocab \ {eos_token_id}
Scores == {0, 1}
ChunkBases == {10, 20}
Layers == 0..(num_hidden_layers - 1)
Positions == 0..(max_context_size - 1)

\* torch.zeros(shape): one zero block per (layer, position)
ZeroCache == [l \in Layers |-> [p \in Positions |-> 0]]

\* ------------------------------------------------- python / torch indexing
\* A slice bound x on an axis of n entries: negative bounds count from the
\* end, and every bound is clamped into [0, n].
ClampIdx(x, n) ==
  IF x < 0 THEN (IF x + n < 0 THEN 0 ELSE x + n)
  ELSE (IF x > n THEN n ELSE x)

\* the positions selected by  [begin:end]  on an axis of n entries
SliceRange(begin, end, n) ==
  {p \in 0..(n - 1) : ClampIdx(begin, n) <= p /\ p < ClampIdx(end, n)}

\* tensor[begin:end] = chunk is accepted when the chunk has as many positions
\* as the slice selects, or broadcasts from a single position
AssignOK(chunk, begin, end, n) ==
  \/ Len(chunk) = Cardinality(SliceRange(begin, end, n))
  \/ Len(chunk) = 1

\* the buffer after  buf[begin:end] = chunk
SliceAssign_FirstOnly(buf, chunk, begin, end) ==
  [p \in Positions |->
     IF p \in SliceRange(begin, end, max_context_size) THEN chunk[1] ELSE buf[p]]

SliceAssign_Spill(buf, chunk, begin, end) ==
  IF Len(chunk) = 0 THEN buf
  ELSE [p \in Positions |->
          IF p \in SliceRange(begin, end + 1, max_context_size)
          THEN chunk[1] ELSE buf[p]]

SliceAssign(buf, chunk, begin, end) ==
  LET n == max_context_size
      lo == ClampIdx(begin, n)
  IN [p \in Positions |->
        IF p \in SliceRange(begin, end, n)
        THEN (IF Len(chunk) = 1 THEN chunk[1] ELSE chunk[p - lo + 1])
        ELSE buf[p]]

\* buf[:end], as the sequence of its positions
PrefixView_Whole(buf, end) ==
  [j \in 1..max_context_size |-> buf[j - 1]]

PrefixView(buf, end) ==
  [j \in 1..ClampIdx(end, max_context_size) |-> buf[j - 1]]

\* indexing the layer axis with an integer
LayerIndexOK(layer_idx) ==
  /\ layer_idx >= 0 - num_hidden_layers
  /\ layer_idx < num_hidden_layers

NormLayer(layer_idx) ==
  IF layer_idx < 0 THEN layer_idx + num_hidden_layers ELSE layer_idx

\* ------------------------------------------- SliceUpdateKeyValueCache.update
\* The result of update(k_state, v_state, layer_idx, slice_indices) on the
\* buffers kc, vc: the outcome, the buffers afterwards and the returned views.
UpdateFail(kc, vc, why) ==
  [outcome |-> why, k_cache |-> kc, v_cache |-> vc, k |-> <<>>, v |-> <<>>]

Update(kc, vc, k_state, v_state, layer_idx, slice_indices) ==
  IF Len(slice_indices) /= 2 THEN UpdateFail(kc, vc, "ValueError")
  ELSE
    LET begin == slice_indices[1]
        end == slice_indices[2]
    IN IF ~LayerIndexOK(layer_idx) THEN UpdateFail(kc, vc, "IndexError")
       ELSE
         LET l == NormLayer(layer_idx)
         IN IF ~AssignOK(k_state, begin, end, max_context_size)
            THEN UpdateFail(kc, vc, "RuntimeError")
            ELSE
              LET kc2 == [kc EXCEPT ![l] = SliceAssign(kc[l], k_state, begin, end)]
              IN IF ~AssignOK(v_state, begin, end, max_context_size)
                 THEN UpdateFail(kc2, vc, "RuntimeError")
                 ELSE
                   LET vc2 == [vc EXCEPT ![l] = SliceAssign(vc[l], v_state, begin, end)]
                   IN [outcome |-> "ok", k_cache |-> kc2, v_cache |-> vc2,
                       k |-> PrefixView(kc2[l], end),
                       v |-> PrefixView(vc2[l], end)]

\* ------------------------------------------------------ causal mask (numpy)
\* A matrix is its shape (rows, columns) and its entries, 0-based.
Full(rows, cols, fill_value) ==
  [shape |-> <<rows, cols>>,
   val |-> [r \in 0..(rows - 1) |-> [c \in 0..(cols - 1) |-> fill_value]]]

\* np.triu(m, k): entries on and above the k-th diagonal are kept, the others
\* are zeroed
Triu(m, k) ==
  [shape |-> m.shape,
   val |-> [r \in 0..(m.shape[1] - 1) |->
              [c \in 0..(m.shape[2] - 1) |->
                 IF c - r >= k THEN m.val[r][c] ELSE 0]]]

FillValue_Zero(num_past) == 0
FillValue(num_past) == IF num_past = 0 THEN NegInf ELSE 0

\* the mask inference() builds for q_len new tokens after num_past tokens;
\* 0 and -inf are both exact in float16, so astype(np.float16) keeps them
CausalMask(q_len, num_past) ==
  Triu(Full(q_len, num_past + q_len, FillValue(num_past)), 1)

\* -------------------------------------------- SliceUpdateMistralAttention
\* The projections of the external model: one key block and one value block
\* per new token, distinct from each other and from the zero block.
KeyStates(input_ids) == [j \in 1..Len(input_ids) |-> input_ids[j] + 1]
ValueStates(input_ids) == [j \in 1..Len(input_ids) |-> input_ids[j] + 101]

SliceIndices_OneEarly(end_step, q_len) == <<end_step - q_len - 1, end_step>>
SliceIndices(end_step, q_len) == <<end_step - q_len, end_step>>

\* scaled_dot_product_attention broadcasts attn_mask (q rows, width columns)
\* against the scores of q_len queries over kv_len cached positions
SdpaShapeOK(mask_shape, q_len, kv_len) ==
  /\ mask_shape[1] = q_len \/ mask_shape[1] = 1
  /\ mask_shape[2] = kv_len \/ mask_shape[2] = 1

AttentionForward(kc, vc, input_ids, attention_mask, layer_idx) ==
  LET q_len == Len(input_ids)
      end_step == attention_mask.shape[2]
      u == Update(kc, vc, KeyStates(input_ids), ValueStates(input_ids),
                  layer_idx, SliceIndices(end_step, q_len))
  IN IF u.outcome /= "ok" THEN u
     ELSE IF ~SdpaShapeOK(attention_mask.shape, q_len, Len(u.k))
          THEN [u EXCEPT !.outcome = "RuntimeError"]
          ELSE u

\* ---------------------------------------- StatefulMistralForCausalLM.forward
\* the decoder layers run in order; the first failing layer ends the pass
RECURSIVE RunLayers(_, _, _, _, _)
RunLayers(kc, vc, input_ids, causal_mask_, l) ==
  LET a == AttentionForward(kc, vc, input_ids, causal_mask_, l)
  IN IF a.outcome /= "ok" \/ l + 1 >= num_hidden_layers THEN a
     ELSE RunLayers(a.k_cache, a.v_cache, input_ids, causal_mask_, l + 1)

PastSeenTokens(mask_shape, q_len) == mask_shape[2] - q_len

Forward(kc, vc, input_ids, causal_mask_) ==
  [run |-> RunLayers(kc, vc, input_ids, causal_mask_, 0),
   past_seen_tokens |-> PastSeenTokens(causal_mask_.shape, Len(input_ids))]

\* np.argmax(logits[0][-1]): the first index holding the largest score
Sample_LastMax(scores) ==
  CHOOSE t \in DOMAIN scores :
    /\ \A u \in DOMAIN scores : scores[u] <= scores[t]
    /\ \A u \in DOMAIN scores : scores[u] = scores[t] => u <= t

Sample(scores) ==
  CHOOSE t \in DOMAIN scores :
    /\ \A u \in DOMAIN scores : scores[u] <= scores[t]
    /\ \A u \in DOMAIN scores : scores[u] = scores[t] => t <= u

\* ===================================================================== state
VARIABLES
  k_cache, v_cache,      \* SliceUpdateKeyValueCache buffers
  past_seen_tokens,      \* SliceUpdateKeyValueCache.past_seen_tokens
  causal_mask,           \* the mask of the latest inference() call
  ret,                   \* the latest call: its arguments, outcome, result
  pc,                    \* position of generate / get_next_token
  prompt_tokens, max_new_tokens,
  token, num_past_tokens, i, extend_tokens,
  steps,                 \* the inference() calls of the session, in order
  produced,              \* number of sample() calls of the session
  logits,                \* the scores of the latest inference() call
  kv_cache_shape         \* the shape the cache was constructed with

vars == <<k_cache, v_cache, past_seen_tokens, causal_mask, ret, pc,
          prompt_tokens, max_new_tokens, token, num_past_tokens, i,
          extend_tokens, steps, produced, logits, kv_cache_shape>>

\* (#layers, batch_size, #kv_heads, context_size, head_dim) of the model's
\* cache; a cell of k_cache stands for one (batch, kv_heads, head_dim) block
ModelCacheShape == <<num_hidden_layers, 1, 1, max_context_size, 1>>
NoLogits == <<>>
Logits == [Vocab -> Scores]

NoMask == Full(0, 0, 0)
NoCall ==
  [op |-> "none", outcome |-> "none", layer_idx |-> 0, slice_indices |-> <<>>,
   k_state |-> <<>>, v_state |-> <<>>, input_ids |-> <<>>, num_past |-> 0,
   k |-> <<>>, v |-> <<>>]

\* ------------------------------------------------ calls on a cache (SpecApi)
\* A cache some earlier pass has filled up to position n
FilledCache(n, base) ==
  [l \in Layers |-> [p \in Positions |-> IF p < n THEN base + p ELSE 0]]

Chunks ==
  {[j \in 1..n |-> b + j] : n \in 0..MaxChunk, b \in ChunkBases}

SliceArgs ==
  {<<b, e>> : b \in 0..(max_context_size + 1), e \in 0..(max_context_size + 1)}
    \cup {<<0, 1, 2>>}

InputIds ==
  UNION {[1..n -> PromptVocab] : n \in 1..MaxChunk}

InitApi ==
  /\ \E n \in 0..max_context_size :
       /\ k_cache = FilledCache(n, 50)
       /\ v_cache = FilledCache(n, 150)
       /\ past_seen_tokens = n
  /\ causal_mask = NoMask
  /\ ret = NoCall
  /\ pc = "api"
  /\ prompt_tokens = <<>>
  /\ max_new_tokens = 0
  /\ token = 0
  /\ num_past_tokens = 0
  /\ i = 0
  /\ extend_tokens = <<>>
  /\ steps = <<>>
  /\ produced = 0
  /\ logits = NoLogits
  /\ kv_cache_shape = ModelCacheShape

\* one call of SliceUpdateKeyValueCache.update
CallUpdate ==
  /\ pc = "api"
  /\ \E k_state \in Chunks, v_state \in Chunks,
        layer_idx \in (0 - 1)..num_hidden_layers, slice_indices \in SliceArgs :
       LET u == Update(k_cache, v_cache, k_state, v_state, layer_idx, slice_indices)
       IN /\ k_cache' = u.k_cache
          /\ v_cache' = u.v_cache
          /\ ret' = [op |-> "update", outcome |-> u.outcome,
                     layer_idx |-> layer_idx, slice_indices |-> slice_indices,
                     k_state |-> k_state, v_state |-> v_state,
                     input_ids |-> <<>>, num_past |-> 0,
                     k |-> u.k, v |-> u.v]
  /\ pc' = "called"
  /\ UNCHANGED <<past_seen_tokens, causal_mask, prompt_tokens, max_new_tokens,
                 token, num_past_tokens, i, extend_tokens, steps, produced,
                 logits, kv_cache_shape>>

\* one call of inference(model, input_ids, num_past_tokens)
CallInference ==
  /\ pc = "api"
  /\ \E input_ids \in InputIds, num_past \in 0..(max_context_size + 1) :
       LET m == CausalMask(Len(input_ids), num_past)
           f == Forward(k_cache, v_cache, input_ids, m)
       IN /\ causal_mask' = m
          /\ k_cache' = f.run.k_cache
          /\ v_cache' = f.run.v_cache
          /\ past_seen_tokens' = f.past_seen_tokens
          /\ ret' = [op |-> "inference", outcome |-> f.run.outcome,
                     layer_idx |-> 0,
                     slice_indices |-> SliceIndices(m.shape[2], Len(input_ids)),
                     k_state |-> KeyStates(input_ids),
                     v_state |-> ValueStates(input_ids),
                     input_ids |-> input_ids, num_past |-> num_past,
                     k |-> f.run.k, v |-> f.run.v]
          /\ IF f.run.outcome = "ok"
             THEN logits' \in Logits
             ELSE logits' = logits
  /\ pc' = "called"
  /\ UNCHANGED <<prompt_tokens, max_new_tokens, token, num_past_tokens, i,
                 extend_tokens, steps, produced, kv_cache_shape>>

NextApi == CallUpdate \/ CallInference

SpecApi == InitApi /\ [][NextApi]_vars

\* ------------------------------------- generate / get_next_token (Spec)
Prompts == UNION {[1..n -> PromptVocab] : n \in 1..MaxPrompt}

\* generate() has been called; model.make_state() gives a zeroed cache
Init ==
  /\ k_cache = ZeroCache
  /\ v_cache = ZeroCache
  /\ past_seen_tokens = 0
  /\ causal_mask = NoMask
  /\ ret = NoCall
  /\ pc = "start"
  /\ prompt_tokens \in Prompts
  /\ max_new_tokens \in (0 - 1)..MaxNewTokens
  /\ token = 0 - 1
  /\ num_past_tokens = 0
  /\ i = 0
  /\ extend_tokens = <<>>
  /\ steps = <<>>
  /\ produced = 0
  /\ logits = NoLogits
  /\ kv_cache_shape = ModelCacheShape

\* inference(model, input_ids, num_past) on the session's cache: the mask, the
\* forward pass, and the record of the call
Inference(input_ids, num_past) ==
  LET m == CausalMask(Len(input_ids), num_past)
      f == Forward(k_cache, v_cache, input_ids, m)
  IN /\ causal_mask' = m
     /\ k_cache' = f.run.k_cache
     /\ v_cache' = f.run.v_cache
     /\ past_seen_tokens' = f.past_seen_tokens
     /\ ret' = [op |-> "inference", outcome |-> f.run.outcome,
                layer_idx |-> 0,
                slice_indices |-> SliceIndices(m.shape[2], Len(input_ids)),
                k_state |-> KeyStates(input_ids),
                v_state |-> ValueStates(input_ids),
                input_ids |-> input_ids, num_past |-> num_past,
                k |-> f.run.k, v |-> f.run.v]
     /\ steps' = Append(steps, [num_past |-> num_past, q_len |-> Len(input_ids),
                                outcome |-> f.run.outcome])

\* num_past_tokens after the prompt step
SeedNumPast_Zero(prompt) == 0
SeedNumPast(prompt) == Len(prompt)

\* num_past_tokens after a one-token step
NextNumPast_Stuck(n) == n
NextNumPast_Skip(n) == n + 2
NextNumPast(n) == n + 1

\* the loop's exit test on the yielded token and its enumerate index
ShouldBreak_Late(tok, idx, limit) == tok = eos_token_id \/ idx = limit + 1
ShouldBreak_NoStop(tok, idx, limit) == idx = limit
ShouldBreak(tok, idx, limit) == tok = eos_token_id \/ idx = limit

\* get_next_token up to its first yield: the prompt in one batched step
Seed ==
  /\ pc = "start"
  /\ Inference(prompt_tokens, 0)
  /\ IF ret'.outcome = "ok"
     THEN /\ logits' \in Logits
          /\ token' = Sample(logits')
          /\ num_past_tokens' = SeedNumPast(prompt_tokens)
          /\ produced' = produced + 1
          /\ pc' = "yield"
     ELSE /\ pc' = "raised"
          /\ UNCHANGED <<logits, token, num_past_tokens, produced>>
  /\ UNCHANGED <<prompt_tokens, max_new_tokens, i, extend_tokens,
                 kv_cache_shape>>

\* generate's loop body leaves the loop
Break ==
  /\ pc = "yield"
  /\ ShouldBreak(token, i, max_new_tokens)
  /\ pc' = "done"
  /\ UNCHANGED <<k_cache, v_cache, past_seen_tokens, causal_mask, ret,
                 prompt_tokens, max_new_tokens, token, num_past_tokens, i,
                 extend_tokens, steps, produced, logits, kv_cache_shape>>

\* generate's loop body keeps the token and asks for the next one
AppendToken ==
  /\ pc = "yield"
  /\ ~ShouldBreak(token, i, max_new_tokens)
  /\ extend_tokens' = Append(extend_tokens, token)
  /\ pc' = "resume"
  /\ UNCHANGED <<k_cache, v_cache, past_seen_tokens, causal_mask, ret,
                 prompt_tokens, max_new_tokens, token, num_past_tokens, i,
                 steps, produced, logits, kv_cache_shape>>

\* get_next_token from one yield to the next: one token per step
Extend ==
  /\ pc = "resume"
  /\ Inference(<<token>>, num_past_tokens)
  /\ IF ret'.outcome = "ok"
     THEN /\ logits' \in Logits
          /\ token' = Sample(logits')
          /\ num_past_tokens' = NextNumPast(num_past_tokens)
          /\ produced' = produced + 1
          /\ i' = i + 1
          /\ pc' = "yield"
     ELSE /\ pc' = "raised"
          /\ UNCHANGED <<logits, token, num_past_tokens, produced, i>>
  /\ UNCHANGED <<prompt_tokens, max_new_tokens, extend_tokens, kv_cache_shape>>

Next == Seed \/ Break \/ AppendToken \/ Extend

Spec == Init /\ [][Next]_vars

\* the thread of generate is inside the loop or about to enter it
Running == pc \in {"start", "yield", "resume"}

\* the thread moves to its next position; every step of Next is such a move
\* and one is possible exactly while Running
Advance ==
  /\ Running
  /\ pc' \in {"yield", "resume", "done", "raised"}
  /\ pc' /= pc

\* generate runs on one thread and waits for nothing: while it can move, it
\* does
SpecFair == Spec /\ WF_pc(Advance)

\* ------------------------------ SliceUpdateKeyValueCache.__init__ (SpecCtor)
\* Here a tensor is written out in full: a function on the index tuples of
\* its shape.
Dims == (0 - 1)..MaxDim
Shapes == [1..5 -> Dims]
NoTensor == <<>>

\* torch.zeros refuses a negative dimension; a dimension of 0 gives a tensor
\* without elements
ZerosOK(shape) == \A d \in DOMAIN shape : shape[d] >= 0

IndexSet(shape) ==
  {t \in [DOMAIN shape -> 0..(MaxDim - 1)] : \A d \in DOMAIN shape : t[d] < shape[d]}

Zeros(shape) == [t \in IndexSet(shape) |-> 0]

InitCtor ==
  /\ k_cache = NoTensor
  /\ v_cache = NoTensor
  /\ past_seen_tokens = 0 - 1      \* no cache object yet
  /\ causal_mask = NoMask
  /\ ret = NoCall
  /\ pc = "new"
  /\ prompt_tokens = <<>>
  /\ max_new_tokens = 0
  /\ token = 0
  /\ num_past_tokens = 0
  /\ i = 0
  /\ extend_tokens = <<>>
  /\ steps = <<>>
  /\ produced = 0
  /\ logits = NoLogits
  /\ kv_cache_shape = <<>>

\* SliceUpdateKeyValueCache(shape): when torch.zeros raises, no object exists
Construct ==
  /\ pc = "new"
  /\ \E shape \in Shapes :
       /\ kv_cache_shape' = shape
       /\ IF ZerosOK(shape)
          THEN /\ past_seen_tokens' = 0
               /\ k_cache' = Zeros(shape)
               /\ v_cache' = Zeros(shape)
               /\ ret' = [NoCall EXCEPT !.op = "init", !.outcome = "ok"]
          ELSE /\ ret' = [NoCall EXCEPT !.op = "init", !.outcome = "RuntimeError"]
               /\ UNCHANGED <<past_seen_tokens, k_cache, v_cache>>
  /\ pc' = "constructed"
  /\ UNCHANGED <<causal_mask, prompt_tokens, max_new_tokens, token,
                 num_past_tokens, i, extend_tokens, steps, produced, logits>>

NextCtor == Construct

SpecCtor == InitCtor /\ [][NextCtor]_vars

\* ------------------------- two get_next_token sessions on one model (SpecTwo)
\* In this specification the session's variables are indexed by session and
\* the cache buffers by the state handle the session got from make_state().
Sessions == {1, 2}

\* kv_cache_state = model.make_state(): a state of its own for each session
MakeState_Shared(s) == 1
MakeState(s) == s

Handles == {MakeState(s) : s \in Sessions}

\* the model as a deterministic scoring function of what the step attends
\* over: the key and value prefixes the cache returned
RECURSIVE SumSeq(_)
SumSeq(q) == IF q = <<>> THEN 0 ELSE q[1] + SumSeq(Tail(q))

ScoreFn(k, v) ==
  [t \in Vocab |-> IF t = (SumSeq(k) + SumSeq(v)) % VocabSize THEN 1 ELSE 0]

InitTwo ==
  /\ k_cache = [h \in Handles |-> ZeroCache]
  /\ v_cache = [h \in Handles |-> ZeroCache]
  /\ past_seen_tokens = 0
  /\ causal_mask = NoMask
  /\ ret = NoCall
  /\ pc = [s \in Sessions |-> "start"]
  /\ prompt_tokens \in [Sessions -> InputIds]
  /\ max_new_tokens = 0
  /\ token = [s \in Sessions |-> 0 - 1]
  /\ num_past_tokens = [s \in Sessions |-> 0]
  /\ i = 0
  /\ extend_tokens = [s \in Sessions |-> <<>>]
  /\ steps = [s \in Sessions |-> <<>>]
  /\ produced = [s \in Sessions |-> 0]
  /\ logits = [s \in Sessions |-> NoLogits]
  /\ kv_cache_shape = ModelCacheShape

\* inference() of session s: the forward pass runs on the session's state
InferenceOf(s, input_ids, num_past) ==
  LET h == MakeState(s)
      m == CausalMask(Len(input_ids), num_past)
      f == Forward(k_cache[h], v_cache[h], input_ids, m)
  IN /\ causal_mask' = m
     /\ k_cache' = [k_cache EXCEPT ![h] = f.run.k_cache]
     /\ v_cache' = [v_cache EXCEPT ![h] = f.run.v_cache]
     /\ past_seen_tokens' = f.past_seen_tokens
     /\ ret' = [op |-> "inference", outcome |-> f.run.outcome,
                layer_idx |-> 0,
                slice_indices |-> SliceIndices(m.shape[2], Len(input_ids)),
                k_state |-> KeyStates(input_ids),
                v_state |-> ValueStates(input_ids),
                input_ids |-> input_ids, num_past |-> num_past,
                k |-> f.run.k, v |-> f.run.v]
     /\ steps' = [steps EXCEPT ![s] =
                    Append(@, [num_past |-> num_past, q_len |-> Len(input_ids),
                               outcome |-> f.run.outcome])]

\* what follows inference() up to the yield; extend_tokens[s] collects the
\* tokens the generator has yielded
YieldOf(s, next_num_past) ==
  IF ret'.outcome = "ok"
  THEN /\ logits' = [logits EXCEPT ![s] = ScoreFn(ret'.k, ret'.v)]
       /\ token' = [token EXCEPT ![s] = Sample(logits'[s])]
       /\ num_past_tokens' = [num_past_tokens EXCEPT ![s] = next_num_past]
       /\ produced' = [produced EXCEPT ![s] = @ + 1]
       /\ extend_tokens' = [extend_tokens EXCEPT ![s] = Append(@, token'[s])]
       /\ pc' = [pc EXCEPT ![s] = "yield"]
  ELSE /\ pc' = [pc EXCEPT ![s] = "raised"]
       /\ UNCHANGED <<logits, token, num_past_tokens, produced, extend_tokens>>

SeedOf(s) ==
  /\ pc[s] = "start"
  /\ InferenceOf(s, prompt_tokens[s], 0)
  /\ YieldOf(s, SeedNumPast(prompt_tokens[s]))
  /\ UNCHANGED <<prompt_tokens, max_new_tokens, i, kv_cache_shape>>

ExtendOf(s) ==
  /\ pc[s] = "yield"
  /\ InferenceOf(s, <<token[s]>>, num_past_tokens[s])
  /\ YieldOf(s, NextNumPast(num_past_tokens[s]))
  /\ UNCHANGED <<prompt_tokens, max_new_tokens, i, kv_cache_shape>>

NextTwo == \E s \in Sessions : SeedOf(s) \/ ExtendOf(s)

SpecTwo == InitTwo /\ [][NextTwo]_vars

\* =================================================================== claims
\* sum of the new-token-counts of the completed steps among the first n
RECURSIVE SumCompleted(_)
SumCompleted(n) ==
  IF n = 0 THEN 0
  ELSE SumCompleted(n - 1)
         + (IF steps[n].outcome = "ok" THEN steps[n].q_len ELSE 0)

\* the positions of a layer buffer that hold a written (non-zero) block
WrittenPositions(buf) == {p \in Positions : buf[p] /= 0}

\* C1 (as claimed): for every inference call with num_past + q_len within the
\* context size, the mask has shape (q_len, num_past + q_len) and entry
\* (r, c) is permitted (0) exactly when c <= num_past + r, forbidden (-inf)
\* otherwise.
C1_MaskContract ==
  (ret.op = "inference"
     /\ ret.num_past + Len(ret.input_ids) <= max_context_size)
  => /\ causal_mask.shape
          = <<Len(ret.input_ids), ret.num_past + Len(ret.input_ids)>>
     /\ \A r \in 0..(Len(ret.input_ids) - 1) :
          \A c \in 0..(ret.num_past + Len(ret.input_ids) - 1) :
            /\ (causal_mask.val[r][c] = 0) <=> (c <= ret.num_past + r)
            /\ (causal_mask.val[r][c] = NegInf) <=> (c > ret.num_past + r)

\* C2: in a session the occupancy counter equals the sum of the
\* new-token-counts of the completed steps, every step starts with the
\* occupancy that the steps before it wrote, and in every layer exactly the
\* positions below the occupancy have been written.
C2_OccupancyIsSumOfSteps ==
  /\ num_past_tokens = SumCompleted(Len(steps))
  /\ \A n \in 1..Len(steps) : steps[n].num_past = SumCompleted(n - 1)
  /\ \A l \in Layers :
       /\ WrittenPositions(k_cache[l]) = 0..(num_past_tokens - 1)
       /\ WrittenPositions(v_cache[l]) = 0..(num_past_tokens - 1)

C2_Witness ==
  /\ pc = "yield"
  /\ Len(steps) >= 3
  /\ \A n \in 1..Len(steps) : steps[n].outcome = "ok"
  /\ num_past_tokens = Len(prompt_tokens) + 2

\* C3 (as claimed): the occupancy stays within [0, max_context_size], the
\* driver never starts a step whose write range ends beyond the context
\* size, and the generated tokens written are at most the context size minus
\* the prompt length.
C3_NeverStartsOverflowingStep ==
  /\ 0 <= num_past_tokens /\ num_past_tokens <= max_context_size
  /\ 0 <= past_seen_tokens /\ past_seen_tokens <= max_context_size
  /\ \A n \in 1..Len(steps) :
       steps[n].num_past + steps[n].q_len <= max_context_size
  /\ pc /= "start" /\ Len(prompt_tokens) <= max_context_size
       => num_past_tokens - Len(prompt_tokens)
            <= max_context_size - Len(prompt_tokens)

\* C4 (as claimed): an update of a layer with chunks of end - begin >= 1
\* positions whose range end is beyond the context size ends in an error and
\* leaves both buffers and the occupancy counter as they were.
C4_OverflowAlwaysFails ==
  [][(/\ ret'.op = "update"
      /\ Len(ret'.slice_indices) = 2
      /\ ret'.layer_idx \in Layers
      /\ ret'.slice_indices[2] > max_context_size
      /\ ret'.slice_indices[2] - ret'.slice_indices[1] >= 1
      /\ Len(ret'.k_state) = ret'.slice_indices[2] - ret'.slice_indices[1]
      /\ Len(ret'.v_state) = ret'.slice_indices[2] - ret'.slice_indices[1])
     => (/\ ret'.outcome /= "ok"
         /\ k_cache' = k_cache
         /\ v_cache' = v_cache
         /\ past_seen_tokens' = past_seen_tokens)]_vars

\* C5: for a layer and a range 0 <= begin <= end <= max_context_size with
\* chunks of end - begin positions, update succeeds and returns views of
\* exactly end positions whose positions [begin, end) are the chunks and whose
\* positions [0, begin) are the layer's contents before the call.
C5_ValidCall(r) ==
  /\ r.op = "update"
  /\ Len(r.slice_indices) = 2
  /\ 0 <= r.slice_indices[1]
  /\ r.slice_indices[1] <= r.slice_indices[2]
  /\ r.slice_indices[2] <= max_context_size
  /\ Len(r.k_state) = r.slice_indices[2] - r.slice_indices[1]
  /\ Len(r.v_state) = r.slice_indices[2] - r.slice_indices[1]
  /\ r.layer_idx \in Layers

C5_UpdateThenReadPrefix ==
  [][C5_ValidCall(ret')
     => LET b == ret'.slice_indices[1]
            e == ret'.slice_indices[2]
            l == ret'.layer_idx
        IN /\ ret'.outcome = "ok"
           /\ Len(ret'.k) = e
           /\ Len(ret'.v) = e
           /\ \A p \in b..(e - 1) :
                /\ ret'.k[p + 1] = ret'.k_state[p - b + 1]
                /\ ret'.v[p + 1] = ret'.v_state[p - b + 1]
           /\ \A p \in 0..(b - 1) :
                /\ ret'.k[p + 1] = k_cache[l][p]
                /\ ret'.v[p + 1] = v_cache[l][p]]_vars

C5_Witness ==
  /\ C5_ValidCall(ret)
  /\ ret.outcome = "ok"
  /\ ret.slice_indices[1] >= 1
  /\ Len(ret.k_state) >= 2
  /\ ret.k[1] /= 0

\* C6: the key/value prefixes a step returns depend only on the positions
\* below the end of its range: on any cache that agrees with the actual one
\* below that end and holds arbitrary stale blocks from it on, the same
\* update, and the same inference step, return the same prefixes.
StaleVals == {0, 77}
StalePatterns == [Positions -> StaleVals]
WithStale(buf, end, s, shift) ==
  [p \in Positions |-> IF p < end THEN buf[p] ELSE s[p] + shift]

C6_PrefixIgnoresStaleData ==
  [][(ret'.outcome = "ok" /\ ret'.op \in {"update", "inference"})
     => \A s \in StalePatterns :
          LET e == ret'.slice_indices[2]
              kc == [l \in Layers |-> WithStale(k_cache[l], e, s, 0)]
              vc == [l \in Layers |-> WithStale(v_cache[l], e, s, 100)]
              u == IF ret'.op = "update"
                   THEN Update(kc, vc, ret'.k_state, ret'.v_state,
                               ret'.layer_idx, ret'.slice_indices)
                   ELSE Forward(kc, vc, ret'.input_ids, causal_mask').run
          IN /\ u.outcome = "ok"
             /\ u.k = ret'.k
             /\ u.v = ret'.v]_vars

C6_Witness ==
  /\ ret.op = "update"
  /\ ret.outcome = "ok"
  /\ ret.layer_idx \in Layers
  /\ ret.slice_indices[2] >= 1
  /\ ret.slice_indices[2] < max_context_size
  /\ Len(ret.k) = ret.slice_indices[2]
  /\ k_cache[ret.layer_idx][ret.slice_indices[2]] /= 0

\* C7 (as claimed): at every point of a session, once generate has entered
\* its loop, the generated sequence is no longer than max_new_tokens, whatever
\* integer max_new_tokens is.
C7_LengthWithinAnyLimit ==
  pc /= "start" => Len(extend_tokens) <= max_new_tokens

\* C7 (amended): when max_new_tokens >= 0, the generated sequence is never
\* longer than max_new_tokens.
C7_LengthWithinLimit ==
  max_new_tokens >= 0 => Len(extend_tokens) <= max_new_tokens

C7_Witness ==
  /\ pc = "done"
  /\ max_new_tokens >= 1
  /\ Len(extend_tokens) = max_new_tokens

\* C8: when the yielded token is the stop token the session halts at once,
\* with no further inference step and no further token appended; a halted
\* session takes no step; the output never contains the stop token.
C8_StopTokenHalts ==
  /\ [](\A j \in 1..Len(extend_tokens) : extend_tokens[j] /= eos_token_id)
  /\ [][(pc = "yield" /\ token = eos_token_id)
        => (/\ pc' = "done"
            /\ extend_tokens' = extend_tokens
            /\ steps' = steps
            /\ produced' = produced
            /\ k_cache' = k_cache
            /\ v_cache' = v_cache)]_vars
  /\ [][pc /= "done"]_vars

C8_Witness ==
  /\ pc = "done"
  /\ token = eos_token_id
  /\ i /= max_new_tokens
  /\ Len(extend_tokens) >= 1

\* C9 (as claimed): once the max_new_tokens-th token has been produced, no
\* further inference step runs and no further token is produced.
C9_HaltsWhenLimitReached ==
  [][(max_new_tokens >= 1 /\ produced >= max_new_tokens)
     => (steps' = steps /\ produced' = produced)]_vars

\* C10: a session's first step is the one Seeding step, with occupancy 0 and
\* the whole prompt; every later step is an Extending step of one token on a
\* non-empty cache; with max_new_tokens >= 0 there are at most max_new_tokens
\* Extending steps.
C10_OneSeedThenSingleTokenSteps ==
  /\ (pc = "start") <=> (steps = <<>>)
  /\ Len(steps) >= 1
       => /\ steps[1].num_past = 0
          /\ steps[1].q_len = Len(prompt_tokens)
  /\ \A n \in 2..Len(steps) :
       /\ steps[n].q_len = 1
       /\ steps[n].num_past > 0
  /\ max_new_tokens >= 0 => Len(steps) - 1 <= max_new_tokens

C10_Witness ==
  /\ pc = "done"
  /\ max_new_tokens >= 1
  /\ Len(steps) = 1 + max_new_tokens
  /\ Len(prompt_tokens) >= 2

\* C11: the token sample() returns for a score vector holds the largest score
\* of the vector, and every lower index holds a strictly smaller score (ties
\* go to the lowest index); the token is thereby fixed by the vector alone.
C11_GreedyLowestIndex ==
  produced >= 1
  => /\ token \in DOMAIN logits
     /\ \A u \in DOMAIN logits : logits[u] <= logits[token]
     /\ \A u \in DOMAIN logits : u < token => logits[u] < logits[token]

C11_Witness ==
  /\ produced >= 2
  /\ token = 1
  /\ \E u \in DOMAIN logits : u > token /\ logits[u] = logits[token]

\* C12 (as claimed): constructing the cache with any dimension <= 0 ends in an
\* error and creates no cache; with all dimensions > 0 it gives two
\* zero-filled buffers of that shape and occupancy 0.
C12_NonPositiveShapeRejected ==
  ret.op = "init"
  => IF \E d \in DOMAIN kv_cache_shape : kv_cache_shape[d] <= 0
     THEN /\ ret.outcome /= "ok"
          /\ past_seen_tokens = 0 - 1
          /\ k_cache = NoTensor
          /\ v_cache = NoTensor
     ELSE /\ ret.outcome = "ok"
          /\ DOMAIN k_cache = IndexSet(kv_cache_shape)
          /\ DOMAIN v_cache = IndexSet(kv_cache_shape)
          /\ \A t \in IndexSet(kv_cache_shape) : k_cache[t] = 0 /\ v_cache[t] = 0
          /\ past_seen_tokens = 0

\* C13 (as claimed): an update with a layer index outside [0, #layers), on a
\* valid range with chunks of end - begin >= 1 positions, ends in an error and
\* modifies no layer's key or value buffer.
C13_LayerIndexOutOfRangeFails ==
  [][(/\ ret'.op = "update"
      /\ Len(ret'.slice_indices) = 2
      /\ ret'.layer_idx \notin Layers
      /\ ret'.slice_indices[2] <= max_context_size
      /\ ret'.slice_indices[2] - ret'.slice_indices[1] >= 1
      /\ Len(ret'.k_state) = ret'.slice_indices[2] - ret'.slice_indices[1]
      /\ Len(ret'.v_state) = ret'.slice_indices[2] - ret'.slice_indices[1])
     => (/\ ret'.outcome /= "ok"
         /\ k_cache' = k_cache
         /\ v_cache' = v_cache)]_vars

\* C14 (as claimed): after a forward step that wrote q_len new positions, the
\* cache's own counter past_seen_tokens (what get_seq_length returns) equals
\* the occupancy before the step plus q_len.
C14_CacheCounterIncludesNewTokens ==
  (ret.op = "inference" /\ ret.outcome = "ok")
  => past_seen_tokens = ret.num_past + Len(ret.input_ids)

\* C15: every step of a session hands the cache the range
\* [occupancy_before, occupancy_before + q_len) = [mask width - q_len, mask
\* width); a completed step writes, in every layer, exactly the positions of
\* that range, none of which was written before, and a failed step writes
\* nothing; so the ranges of the completed steps are contiguous and disjoint
\* and exactly the positions [0, occupancy) are written.
StepRange(st) == st.num_past..(st.num_past + st.q_len - 1)
CompletedSteps == {n \in 1..Len(steps) : steps[n].outcome = "ok"}

C15_StepWritesItsRange ==
  /\ [](/\ \A m \in CompletedSteps, n \in CompletedSteps :
             m /= n => StepRange(steps[m]) \cap StepRange(steps[n]) = {}
        /\ \A n \in CompletedSteps :
             StepRange(steps[n]) \subseteq 0..(num_past_tokens - 1)
        /\ \A l \in Layers :
             /\ WrittenPositions(k_cache[l])
                  = UNION {StepRange(steps[n]) : n \in CompletedSteps}
             /\ WrittenPositions(k_cache[l]) = 0..(num_past_tokens - 1)
             /\ WrittenPositions(v_cache[l]) = 0..(num_past_tokens - 1))
  /\ [][steps' /= steps
        => LET st == steps'[Len(steps')]
               b == st.num_past
               e == st.num_past + st.q_len
           IN /\ b = num_past_tokens
              /\ ret'.slice_indices = <<b, e>>
              /\ ret'.slice_indices
                   = <<causal_mask'.shape[2] - st.q_len, causal_mask'.shape[2]>>
              /\ IF st.outcome = "ok"
                 THEN \A l \in Layers, p \in Positions :
                        IF b <= p /\ p < e
                        THEN /\ k_cache[l][p] = 0
                             /\ v_cache[l][p] = 0
                             /\ k_cache'[l][p] = ret'.k_state[p - b + 1]
                             /\ v_cache'[l][p] = ret'.v_state[p - b + 1]
                        ELSE /\ k_cache'[l][p] = k_cache[l][p]
                             /\ v_cache'[l][p] = v_cache[l][p]
                 ELSE k_cache' = k_cache /\ v_cache' = v_cache]_vars

C15_Witness ==
  /\ pc = "yield"
  /\ Len(prompt_tokens) = 2
  /\ Len(steps) = 2
  /\ steps[2].outcome = "ok"
  /\ ret.slice_indices = <<2, 3>>
  /\ \A l \in Layers : k_cache[l][2] = ret.k_state[1]

\* C16: an update of layer L with range [begin, end) changes no key or value
\* cell other than those of layer L at positions begin <= p < end, and never
\* changes the occupancy counter; this holds for every call, whatever its
\* outcome.
C16_UpdateFrame ==
  [][(ret'.op = "update" /\ Len(ret'.slice_indices) = 2)
     => /\ past_seen_tokens' = past_seen_tokens
        /\ \A l \in Layers, p \in Positions :
             (\/ l /= (IF ret'.layer_idx < 0
                       THEN ret'.layer_idx + num_hidden_layers
                       ELSE ret'.layer_idx)
              \/ p < ret'.slice_indices[1]
              \/ p >= ret'.slice_indices[2])
             => /\ k_cache'[l][p] = k_cache[l][p]
                /\ v_cache'[l][p] = v_cache[l][p]]_vars

C16_Witness ==
  /\ ret.op = "update"
  /\ ret.outcome = "ok"
  /\ ret.layer_idx = 1
  /\ ret.slice_indices = <<1, 2>>
  /\ past_seen_tokens = 3
  /\ k_cache[1][1] = ret.k_state[1]
  /\ k_cache[1][0] = 50 /\ k_cache[1][2] = 52
  /\ k_cache[0][1] = 51

\* C17: when generate leaves its loop (stop token or limit), the occupancy is
\* the prompt length plus the number of output tokens: in every layer the
\* prompt tokens and then the output tokens, in order, are the written
\* positions, each output token at position prompt length + its index, and
\* the token produced last (not output) is written nowhere after them.
C17_OccupancyAtHalt ==
  pc = "done"
  => LET n == Len(prompt_tokens)
         out == prompt_tokens \o extend_tokens
     IN /\ num_past_tokens = n + Len(extend_tokens)
        /\ num_past_tokens <= max_context_size
        /\ \A l \in Layers, p \in Positions :
             IF p < num_past_tokens
             THEN /\ k_cache[l][p] = KeyStates(out)[p + 1]
                  /\ v_cache[l][p] = ValueStates(out)[p + 1]
             ELSE /\ k_cache[l][p] = 0
                  /\ v_cache[l][p] = 0
        /\ Len(steps) = 1 + Len(extend_tokens)
        /\ produced = 1 + Len(extend_tokens)

C17_Witness ==
  /\ pc = "done"
  /\ Len(extend_tokens) = 2
  /\ extend_tokens[1] /= extend_tokens[2]
  /\ token /= eos_token_id
  /\ i = max_new_tokens

\* C18: with two sessions on the same model, a step of one session leaves
\* the other's buffers and tokens untouched; and however the steps
\* interleave, each session's cache, occupancy and yielded tokens are those
\* of the same number of steps run alone on a fresh cache.
RECURSIVE Alone(_, _)
Alone(prompt, n) ==
  IF n = 0
  THEN [k_cache |-> ZeroCache, v_cache |-> ZeroCache, token |-> 0 - 1,
        num_past |-> 0, yielded |-> <<>>, pc |-> "start"]
  ELSE
    LET prev == Alone(prompt, n - 1)
        input_ids == IF n = 1 THEN prompt ELSE <<prev.token>>
        f == Forward(prev.k_cache, prev.v_cache, input_ids,
                     CausalMask(Len(input_ids), prev.num_past))
        tok == Sample(ScoreFn(f.run.k, f.run.v))
    IN IF prev.pc = "raised" THEN prev
       ELSE IF f.run.outcome = "ok"
       THEN [k_cache |-> f.run.k_cache, v_cache |-> f.run.v_cache,
             token |-> tok,
             num_past |-> IF n = 1 THEN Len(prompt) ELSE prev.num_past + 1,
             yielded |-> Append(prev.yielded, tok), pc |-> "yield"]
       ELSE [prev EXCEPT !.k_cache = f.run.k_cache,
                         !.v_cache = f.run.v_cache, !.pc = "raised"]

C18_SessionsAreIndependent ==
  /\ [](\A s \in Sessions :
          LET r == Alone(prompt_tokens[s], Len(steps[s]))
          IN /\ k_cache[MakeState(s)] = r.k_cache
             /\ v_cache[MakeState(s)] = r.v_cache
             /\ num_past_tokens[s] = r.num_past
             /\ token[s] = r.token
             /\ extend_tokens[s] = r.yielded
             /\ pc[s] = r.pc)
  /\ [][\A s \in Sessions, t \in Sessions :
          (steps'[s] /= steps[s] /\ t /= s)
          => /\ k_cache'[MakeState(t)] = k_cache[MakeState(t)]
             /\ v_cache'[MakeState(t)] = v_cache[MakeState(t)]
             /\ extend_tokens'[t] = extend_tokens[t]]_vars

C18_Witness ==
  /\ prompt_tokens[1] /= prompt_tokens[2]
  /\ \A s \in Sessions :
       /\ Len(steps[s]) >= 2
       /\ \A n \in 1..Len(steps[s]) : steps[s][n].outcome = "ok"
  /\ extend_tokens[1] /= extend_tokens[2]
  /\ k_cache[MakeState(1)] /= k_cache[MakeState(2)]

\* C19: in every step get_next_token performs (the prompt step with
\* num_past_tokens = 0, and every later step with one token on a non-empty
\* cache) the mask handed to the model permits entry (r, c) exactly when
\* c <= num_past_tokens + r.
C19_PerformedStepsAreCausal ==
  ret.op = "inference"
  => LET q == Len(ret.input_ids)
         n == ret.num_past
     IN /\ \/ n = 0 /\ ret.input_ids = prompt_tokens
           \/ n > 0 /\ q = 1
        /\ causal_mask.shape = <<q, n + q>>
        /\ \A r \in 0..(q - 1), c \in 0..(n + q - 1) :
             causal_mask.val[r][c] = (IF c <= n + r THEN 0 ELSE NegInf)

C19_Witness ==
  /\ ret.op = "inference"
  /\ ret.outcome = "ok"
  /\ ret.num_past = 0
  /\ Len(ret.input_ids) >= 2
  /\ causal_mask.val[0][1] = NegInf
  /\ causal_mask.val[1][1] = 0

\* C20: a session with max_new_tokens >= 0 and a non-empty prompt (here even
\* one that fits the context) eventually leaves generate's loop and returns,
\* whatever the model outputs, and never runs more than 1 + max_new_tokens
\* inference steps.
C20_EventuallyHalted ==
  /\ (max_new_tokens >= 0 /\ Len(prompt_tokens) <= max_context_size)
       => <>(pc = "done")
  /\ [](max_new_tokens >= 0 => Len(steps) <= 1 + max_new_tokens)

====
